---- MODULE Spec2Model ----
(***************************************************************************)
(* DELTASAVER (src/src/main.rs): the filename codec, the four file         *)
(* operations (scan, backup, restore, delete) and the iced application     *)
(* (Deltasaver::update / Deltasaver::view) that schedules them as tasks.   *)
(*                                                                         *)
(* A filename is a sequence of one-character strings, so that the decoders *)
(* really strip the prefix, split on '_' and parse decimal digits.  File   *)
(* contents are opaque values; SHA-256 is a table of distinct lowercase    *)
(* hex strings (collision freedom of the digest is assumed).               *)
(*                                                                         *)
(* Three specifications share the definitions:                             *)
(*   SpecCodec  applies the encoder and the two decoders to bounded inputs *)
(*   SpecCore   calls the four core operations, one call at a time, on     *)
(*              arbitrary arguments                                        *)
(*   Spec       the application: user clicks, the message queue, update,   *)
(*              view and the tasks running concurrently, one syscall per   *)
(*              step (FairSpec adds the executor's fairness)               *)
(***************************************************************************)
EXTENDS Integers, Sequences, FiniteSets, Bags, TLC

VARIABLES
    fs,          \* the two directories: [game |-> dir, local |-> dir]
    game_saves,  \* Deltasaver.game_saves : (chapter, slot) -> SaveFile
    local_saves, \* Deltasaver.local_saves : the SaveFiles of the archive
    loading,     \* Deltasaver.loading
    tasks,       \* the futures handed to Task::perform and not finished
    inbox,       \* messages waiting for Deltasaver::update, oldest first
    hist,        \* history: what has been issued, and what went wrong
    call,        \* SpecCore: the last core call, its arguments and result
    codec        \* SpecCodec: the codec input and, once applied, the output

vars == <<fs, game_saves, local_saves, loading, tasks, inbox, hist, call, codec>>

----------------------------------------------------------------------------
(* Bounds of the model *)

\* Longest remainder (after the prefix candidate) of a probed filename
MaxProbeLen == 5
\* Clock readings of the codec inputs: seconds 0..MaxSecs and nanoseconds
\* 0..MaxNanos, and a reading of each with all its digits
MaxSecs == 1
MaxNanos == 1
\* Core calls per run of SpecCore
MaxCalls == 2
\* User clicks per run of the application
MaxClicks == 3
\* Changes the game itself makes to its save directory per run
MaxExternal == 1

(* Program constants *)

CHAPTER_COUNT == 7
BUILTIN_SLOT_MAX_INDEX == 2
\* u8::MAX, the range of Chapter and Slot
U8Max == 255

----------------------------------------------------------------------------
(* Characters and decimal numbers *)

Digits == <<"0", "1", "2", "3", "4", "5", "6", "7", "8", "9">>

IsDigit(c) == \E i \in 1..10 : Digits[i] = c

DigitVal(c) == (CHOOSE i \in 1..10 : Digits[i] = c) - 1

\* format!("{}", n) of an unsigned integer: decimal, no padding, no sign
RECURSIVE ToDec(_)
ToDec(n) ==
    IF n < 10 THEN <<Digits[n + 1]>>
    ELSE ToDec(n \div 10) \o <<Digits[(n % 10) + 1]>>

\* The digit loop of str::parse::<u8>: None on a non-digit or on overflow
RECURSIVE ParseDigits(_, _)
ParseDigits(s, acc) ==
    IF s = <<>> THEN [ok |-> TRUE, val |-> acc]
    ELSE IF ~IsDigit(Head(s)) THEN [ok |-> FALSE, val |-> 0]
    ELSE LET v == acc * 10 + DigitVal(Head(s))
         IN  IF v > U8Max THEN [ok |-> FALSE, val |-> 0]
             ELSE ParseDigits(Tail(s), v)

\* str::parse::<u8>: empty fails, a lone sign fails, one leading '+' is
\* accepted, '-' is not a digit of an unsigned type
ParseU8(s) ==
    IF s = <<>> THEN [ok |-> FALSE, val |-> 0]
    ELSE IF Len(s) = 1 /\ Head(s) \in {"+", "-"} THEN [ok |-> FALSE, val |-> 0]
    ELSE IF Head(s) = "+" THEN ParseDigits(Tail(s), 0)
    ELSE ParseDigits(s, 0)

\* str::split(sep).collect(): always at least one field, empty fields kept
RECURSIVE SplitFrom(_, _, _)
SplitFrom(s, sep, cur) ==
    IF s = <<>> THEN <<cur>>
    ELSE IF Head(s) = sep THEN <<cur>> \o SplitFrom(Tail(s), sep, <<>>)
    ELSE SplitFrom(Tail(s), sep, Append(cur, Head(s)))

Split(s, sep) == SplitFrom(s, sep, <<>>)

----------------------------------------------------------------------------
(* The filename codec *)

Prefix == <<"f", "i", "l", "e", "c", "h">>

Sep == "_"

StartsWith(s, p) == Len(s) >= Len(p) /\ SubSeq(s, 1, Len(p)) = p

\* filename[6..]
AfterPrefix(filename) == SubSeq(filename, Len(Prefix) + 1, Len(filename))

None == [some |-> FALSE]

SlotInRangeBug(slot) == slot <= 3

\* `slot <= 2` of both decoders
SlotInRange(slot) == slot <= 2

\* the field count parse_save_filename requires
LiveFieldsOk(parts) == Len(parts) = 2

\* the field count parse_local_save_filename requires
LocalFieldsOk(parts) == Len(parts) >= 3

parse_save_filename(filename) ==
    IF StartsWith(filename, Prefix)
    THEN LET parts == Split(AfterPrefix(filename), Sep)
         IN  IF LiveFieldsOk(parts)
             THEN LET chapter == ParseU8(parts[1])
                      slot == ParseU8(parts[2])
                  IN  IF chapter.ok /\ slot.ok /\ SlotInRange(slot.val)
                      THEN [some |-> TRUE, chapter |-> chapter.val,
                            slot |-> slot.val]
                      ELSE None
             ELSE None
    ELSE None

parse_local_save_filename(filename) ==
    IF StartsWith(filename, Prefix)
    THEN LET parts == Split(AfterPrefix(filename), Sep)
         IN  IF LocalFieldsOk(parts)
             THEN LET chapter == ParseU8(parts[1])
                      slot == ParseU8(parts[2])
                  IN  IF chapter.ok /\ slot.ok /\ SlotInRange(slot.val)
                      THEN [some |-> TRUE, chapter |-> chapter.val,
                            slot |-> slot.val, hash |-> parts[3]]
                      ELSE None
             ELSE None
    ELSE None

\* File contents (byte strings), opaque
Contents == {"AAAA", "BBBB"}

\* format!("{:x}", Sha256::digest(&contents)): lowercase hex, one digest
\* per content
Sha256Hex(contents) ==
    IF contents = "AAAA" THEN <<"6", "3", "c", "1">> ELSE <<"3", "8", "1", "6">>

\* Clock readings: [secs |-> now.as_secs(), nanos |-> now.subsec_nanos()]
Clock == [secs : 0..MaxSecs \cup {1762106000},
          nanos : 0..MaxNanos \cup {999999999}]

\* The readings the backups of SpecCore and Spec see.  SystemTime::now() is
\* not monotonic, so any reading may follow any other, itself included.
Instants == {[secs |-> 0, nanos |-> 0], [secs |-> 0, nanos |-> 1],
             [secs |-> 1, nanos |-> 0]}

BackupNameSecsOnly(chapter, slot, contents, now) ==
    Prefix \o ToDec(chapter) \o <<Sep>> \o ToDec(slot)
           \o <<Sep>> \o Sha256Hex(contents) \o <<Sep>> \o ToDec(now.secs)

BackupNameBug(chapter, slot, contents, now) ==
    Prefix \o ToDec(chapter) \o <<Sep>> \o Sha256Hex(contents)
           \o <<Sep>> \o ToDec(slot)
           \o <<Sep>> \o ToDec(now.secs) \o <<Sep>> \o ToDec(now.nanos)

\* format!("filech{}_{}_{}_{}_{}", chapter, slot, hash, secs, nanos)
BackupName(chapter, slot, contents, now) ==
    Prefix \o ToDec(chapter) \o <<Sep>> \o ToDec(slot)
           \o <<Sep>> \o Sha256Hex(contents)
           \o <<Sep>> \o ToDec(now.secs) \o <<Sep>> \o ToDec(now.nanos)

\* format!("filech{}_{}", chapter, slot)
LiveName(chapter, slot) == Prefix \o ToDec(chapter) \o <<Sep>> \o ToDec(slot)

\* The filenames backup_save and restore_save can make for the saves the
\* view has buttons for
MadeNames ==
    {LiveName(c, s) : c \in 1..CHAPTER_COUNT, s \in 0..BUILTIN_SLOT_MAX_INDEX}
        \cup {BackupName(c, s, x, now) :
                 c \in 1..CHAPTER_COUNT, s \in 0..BUILTIN_SLOT_MAX_INDEX,
                 x \in Contents, now \in Instants}

\* The decoders are pure functions of the filename: their values on
\* MadeNames are tabulated once, any other filename is decoded on the spot
SaveNameTable == [n \in MadeNames |-> parse_save_filename(n)]

LocalSaveNameTable == [n \in MadeNames |-> parse_local_save_filename(n)]

\* parse_save_filename(filename) as load_saves calls it
DecodeSaveName(filename) ==
    IF filename \in MadeNames THEN SaveNameTable[filename]
    ELSE parse_save_filename(filename)

\* parse_local_save_filename(filename) as load_saves calls it
DecodeLocalSaveName(filename) ==
    IF filename \in MadeNames THEN LocalSaveNameTable[filename]
    ELSE parse_local_save_filename(filename)

----------------------------------------------------------------------------
(* The file system: std::fs on the two directories.  A file operation    *)
(* fails when its file or directory is missing; failures of the platform *)
(* (permissions, a full disk) are injected into the directory reads of   *)
(* the scan only, where the error path of the code is decided.           *)

\* A directory that exists holds files, name -> contents
NoFiles == [n \in {} |-> ""]

AbsentDir == [exists |-> FALSE, files |-> NoFiles]

Dirs == {"game", "local"}

\* A PathBuf: directory.join(filename)
Path(dir, name) == [dir |-> dir, name |-> name]

FileExists(f, path) == f[path.dir].exists /\ path.name \in DOMAIN f[path.dir].files

\* fs::read: fails when the file is absent
ReadFile(f, path) ==
    IF FileExists(f, path)
    THEN [ok |-> TRUE, contents |-> f[path.dir].files[path.name]]
    ELSE [ok |-> FALSE, contents |-> ""]

WriteFileBug(f, path, contents) ==
    IF f[path.dir].exists
    THEN [ok |-> TRUE,
          fs |-> [f EXCEPT ![path.dir].files =
                    [n \in {path.name} |-> contents]]]
    ELSE [ok |-> FALSE, fs |-> f]

\* fs::write: creates or replaces the file; fails when the directory is
\* absent
WriteFile(f, path, contents) ==
    IF f[path.dir].exists
    THEN [ok |-> TRUE,
          fs |-> [f EXCEPT ![path.dir].files =
                    [n \in DOMAIN @ \cup {path.name} |->
                        IF n = path.name THEN contents ELSE @[n]]]]
    ELSE [ok |-> FALSE, fs |-> f]

RemoveFileBug(f, path) ==
    IF FileExists(f, path)
    THEN [ok |-> TRUE, fs |-> [f EXCEPT ![path.dir].files = NoFiles]]
    ELSE [ok |-> FALSE, fs |-> f]

\* fs::remove_file: fails when the file is absent
RemoveFile(f, path) ==
    IF FileExists(f, path)
    THEN [ok |-> TRUE,
          fs |-> [f EXCEPT ![path.dir].files =
                    [n \in DOMAIN @ \ {path.name} |-> @[n]]]]
    ELSE [ok |-> FALSE, fs |-> f]

----------------------------------------------------------------------------
(* The core operations *)

\* struct SaveFile; `modified` (the file's mtime, shown only) is left out
GameSaveFile(name) ==
    LET p == DecodeSaveName(name)
    IN  [path |-> Path("game", name), chapter |-> p.chapter, slot |-> p.slot,
         hash |-> None, is_local |-> FALSE]

LocalSaveFile(name) ==
    LET p == DecodeLocalSaveName(name)
    IN  [path |-> Path("local", name), chapter |-> p.chapter, slot |-> p.slot,
         hash |-> [some |-> TRUE, val |-> p.hash], is_local |-> TRUE]

NoGameSaves == [k \in {} |-> None]

\* What a directory read can do besides succeed: read_dir fails, or one of
\* the entries it yields is an error
ScanFaults == {"none", "read_dir", "entry"}

\* load_saves, first loop: the game directory.  An absent directory is
\* skipped.  Two names that decode to the same (chapter, slot) overwrite
\* each other in the HashMap in enumeration order, which read_dir leaves
\* open: every choice of the surviving name is a possible result.
ScanGameDir(f, fault) ==
    IF ~f.game.exists THEN {[ok |-> TRUE, game_saves |-> NoGameSaves]}
    ELSE IF fault # "none" THEN {[ok |-> FALSE, game_saves |-> NoGameSaves]}
    ELSE LET names == {n \in DOMAIN f.game.files : DecodeSaveName(n).some}
             KeyOf(n) == <<DecodeSaveName(n).chapter,
                           DecodeSaveName(n).slot>>
             keys == {KeyOf(n) : n \in names}
         IN  {[ok |-> TRUE,
               game_saves |-> [k \in keys |-> GameSaveFile(pick[k])]] :
                  pick \in {g \in [keys -> names] :
                               \A k \in keys : KeyOf(g[k]) = k}}

\* load_saves, second loop: the archive directory.  The Vec is kept as the
\* set of its elements (its order is read_dir's enumeration order).
ScanLocalDir(f, fault) ==
    IF ~f.local.exists THEN [ok |-> TRUE, local_saves |-> {}]
    ELSE IF fault # "none" THEN [ok |-> FALSE, local_saves |-> {}]
    ELSE [ok |-> TRUE,
          local_saves |->
              {LocalSaveFile(n) : n \in
                  {m \in DOMAIN f.local.files :
                      DecodeLocalSaveName(m).some}}]

\* LoadError::IoError(())
IoError == [ok |-> FALSE]

LoadOk(g, l) == [ok |-> TRUE, game_saves |-> g, local_saves |-> l]

LoadResultBug(g, l) ==
    IF ~g.ok THEN IoError
    ELSE LoadOk(g.game_saves, l.local_saves)

\* What load_saves returns from the outcome of its two loops: `?` returns
\* the error at once, Ok((game_saves, local_saves)) is the last line
LoadResult(g, l) ==
    IF ~g.ok \/ ~l.ok THEN IoError
    ELSE LoadOk(g.game_saves, l.local_saves)

\* load_saves run from start to end on file system f
load_saves(f, gameFault, localFault) ==
    {LoadResult(g, ScanLocalDir(f, localFault)) : g \in ScanGameDir(f, gameFault)}

\* backup_save run from start to end: the result and the file system after
backup_save(f, source_path, chapter, slot, now) ==
    LET r == ReadFile(f, source_path)
    IN  IF ~r.ok THEN [ok |-> FALSE, fs |-> f]
        ELSE WriteFile(f, Path("local", BackupName(chapter, slot, r.contents, now)),
                       r.contents)

\* restore_save run from start to end
restore_save(f, local_path, chapter, slot) ==
    LET r == ReadFile(f, local_path)
    IN  IF ~r.ok THEN [ok |-> FALSE, fs |-> f]
        ELSE WriteFile(f, Path("game", LiveName(chapter, slot)), r.contents)

\* delete_local_save
delete_local_save(f, path) == RemoveFile(f, path)

----------------------------------------------------------------------------
(* Values the variables of a specification that does not use them keep *)

NoFs == [game |-> AbsentDir, local |-> AbsentDir]

NoHist ==
    [calls |-> 0,         \* core calls made (SpecCore)
     backups |-> {},      \* the successful backups: chapter, slot, contents, now
     clicks |-> 0,        \* buttons pressed
     external |-> 0,      \* saves the game erased
     fault |-> FALSE,     \* a file operation or a directory read has failed
     ops |-> 0,           \* file operation tasks started by update
     refreshes |-> 0,     \* RefreshSaves messages update has handled
     scans |-> 0,         \* load_saves tasks started
     ignored |-> 0,       \* BackupSave messages update found no save for
     op_failed |-> FALSE, \* a file operation has failed
     last_load |-> "none"]      \* the last SavesLoaded handled: ok or err

NoCall == [op |-> "none"]

NoCodec == [kind |-> "none"]

AppIdle ==
    /\ game_saves = NoGameSaves
    /\ local_saves = {}
    /\ loading = FALSE
    /\ tasks = EmptyBag
    /\ inbox = <<>>
    /\ hist = NoHist

----------------------------------------------------------------------------
(* SpecCodec: the encoder and the decoders on bounded inputs *)

\* Characters of the probed filenames: digits (0 2 3 reach slot 3 and the
\* overflowing chapter 300), a letter, the separator and a sign
ProbeChars == {"0", "2", "3", "X", "_", "+"}

\* What a probed filename starts with: the prefix, the prefix cut short,
\* the prefix in another case
ProbeHeads == {Prefix, <<"f", "i", "l", "e", "c">>, <<"F", "I", "L", "E", "C", "H">>}

ProbeNames ==
    {h \o r : h \in ProbeHeads,
              r \in UNION {[1..n -> ProbeChars] : n \in 0..MaxProbeLen}}

CodecInputs ==
    [kind : {"fields"}, chapter : 0..U8Max, slot : 0..BUILTIN_SLOT_MAX_INDEX,
     contents : Contents, now : Clock, applied : {FALSE},
     name : {<<>>}, live : {None}, local : {None}, scan : {{}}]
    \cup
    [kind : {"name"}, name : ProbeNames, applied : {FALSE},
     live : {None}, local : {None}, scan : {{}}]

InitCodec ==
    /\ codec \in CodecInputs
    /\ fs = NoFs
    /\ call = NoCall
    /\ AppIdle

\* Both directories holding one file of the given name
OneFileFs(name) ==
    [game |-> [exists |-> TRUE, files |-> [n \in {name} |-> "AAAA"]],
     local |-> [exists |-> TRUE, files |-> [n \in {name} |-> "AAAA"]]]

\* backup_save's format!, then the decoders and load_saves on the name
EncodeThenDecode ==
    /\ codec.kind = "fields" /\ ~codec.applied
    /\ LET name == BackupName(codec.chapter, codec.slot, codec.contents, codec.now)
       IN  codec' = [codec EXCEPT !.applied = TRUE, !.name = name,
                                  !.live = parse_save_filename(name),
                                  !.local = parse_local_save_filename(name),
                                  !.scan = load_saves(OneFileFs(name),
                                                      "none", "none")]
    /\ UNCHANGED <<fs, game_saves, local_saves, loading, tasks, inbox, hist, call>>

\* The decoders, and load_saves on directories holding the file, on a
\* probed filename
DecodeProbe ==
    /\ codec.kind = "name" /\ ~codec.applied
    /\ codec' = [codec EXCEPT !.applied = TRUE,
                              !.live = parse_save_filename(codec.name),
                              !.local = parse_local_save_filename(codec.name),
                              !.scan = load_saves(OneFileFs(codec.name),
                                                  "none", "none")]
    /\ UNCHANGED <<fs, game_saves, local_saves, loading, tasks, inbox, hist, call>>

NextCodec == EncodeThenDecode \/ DecodeProbe

SpecCodec == InitCodec /\ [][NextCodec]_vars

\* C5: decoding the archive name backup_save builds for a chapter in 0..255,
\* a slot in 0..2, a content and a clock reading returns that chapter, that
\* slot and the hex hash of that content.
C5_RoundTrip ==
    (codec.kind = "fields" /\ codec.applied) =>
        codec.local = [some |-> TRUE, chapter |-> codec.chapter,
                       slot |-> codec.slot, hash |-> Sha256Hex(codec.contents)]

C5_Witness ==
    /\ codec.kind = "fields" /\ codec.applied
    /\ codec.chapter = U8Max /\ codec.slot = 2 /\ codec.now.nanos = 999999999
    /\ codec.local.some /\ codec.local.chapter = U8Max

\* The remainder of a name after its first six characters, and its fields
ProbeFields(name) == Split(SubSeq(name, 7, Len(name)), "_")

HasPrefix(name) ==
    /\ Len(name) >= 6
    /\ <<name[1], name[2], name[3], name[4], name[5], name[6]>>
          = <<"f", "i", "l", "e", "c", "h">>

\* A name both decoders must refuse: no prefix, or a chapter or slot field
\* that is no unsigned integer (of a byte), or a slot above 2
Refused(name) ==
    \/ ~HasPrefix(name)
    \/ Len(ProbeFields(name)) >= 2 /\
          \/ ~ParseU8(ProbeFields(name)[1]).ok
          \/ ~ParseU8(ProbeFields(name)[2]).ok
          \/ ParseU8(ProbeFields(name)[2]).val > 2

ScanRecords(results) ==
    UNION {IF r.ok
           THEN {r.game_saves[k] : k \in DOMAIN r.game_saves} \cup r.local_saves
           ELSE {} : r \in results}

\* C6: both decoders return None for a name without the prefix, with a
\* chapter or slot field that does not parse, or with a slot above 2; the
\* live decoder also unless there are exactly two fields, the archive
\* decoder also unless there are at least three; and every record of a scan
\* has its slot in 0..2.
C6_DecodeRejects ==
    /\ (codec.kind = "name" /\ codec.applied) =>
          /\ Refused(codec.name) => (codec.live = None /\ codec.local = None)
          /\ (~HasPrefix(codec.name) \/ Len(ProbeFields(codec.name)) # 2)
                => codec.live = None
          /\ (~HasPrefix(codec.name) \/ Len(ProbeFields(codec.name)) < 3)
                => codec.local = None
    /\ (codec.kind # "none" /\ codec.applied) =>
          \A r \in ScanRecords(codec.scan) : r.slot \in 0..2

C6_Witness ==
    /\ codec.kind = "name" /\ codec.applied
    /\ codec.name = Prefix \o <<"3", "_", "3", "_", "X">>
    /\ codec.live = None /\ codec.local = None
    /\ ScanRecords(codec.scan) = {}

----------------------------------------------------------------------------
(* SpecCore: the four core operations, called one at a time *)

Dir(files) == [exists |-> TRUE, files |-> files]

\* A file of the game directory that is no save, and one of the archive
ForeignGameName == <<"d", "r", ".", "i", "n", "i">>
ForeignLocalName == <<"f", "i", "l", "e", "c", "h", "1", "_", "7", "_", "x">>

\* A backup made by an earlier run of the application
EarlierBackup ==
    [chapter |-> 1, slot |-> 0, contents |-> "AAAA", now |-> [secs |-> 0, nanos |-> 0]]

\* A backup of an earlier run, of a save the game has erased since
ErasedSaveBackup ==
    [chapter |-> 2, slot |-> 1, contents |-> "BBBB", now |-> [secs |-> 0, nanos |-> 0]]

BackupFileOf(b) == BackupName(b.chapter, b.slot, b.contents, b.now)

\* Game directories the runs start from: absent, one save, saves and a
\* foreign file, two names of one slot
GameDirsAtStart ==
    {AbsentDir,
     Dir([n \in {LiveName(1, 0)} |-> "AAAA"]),
     Dir([n \in {LiveName(1, 0), LiveName(2, 1), ForeignGameName} |->
            IF n = LiveName(1, 0) THEN "BBBB" ELSE "AAAA"]),
     Dir([n \in {LiveName(1, 0), <<"f", "i", "l", "e", "c", "h", "0", "1", "_", "0">>} |->
            IF n = LiveName(1, 0) THEN "AAAA" ELSE "BBBB"])}

\* Archive directories the runs start from, each with the earlier backups
\* that made it: empty, a foreign file, one earlier backup
LocalDirsAtStart ==
    {[dir |-> Dir(NoFiles), backups |-> {}],
     [dir |-> Dir([n \in {ForeignLocalName} |-> "BBBB"]), backups |-> {}],
     [dir |-> Dir([n \in {BackupFileOf(EarlierBackup)} |-> "AAAA"]),
      backups |-> {EarlierBackup}]}

\* Chapters and slots the core calls are made with
CallChapters == {1, 12}
CallSlots == {0, 2}

MissingName == <<"g", "o", "n", "e">>

PathsOf(f, d) == {Path(d, n) : n \in DOMAIN f[d].files} \cup {Path(d, MissingName)}

InitCore ==
    /\ \E g \in GameDirsAtStart, l \in LocalDirsAtStart :
          /\ fs = [game |-> g, local |-> l.dir]
          /\ hist = [NoHist EXCEPT !.backups = l.backups]
    /\ call = NoCall
    /\ codec = NoCodec
    /\ game_saves = NoGameSaves
    /\ local_saves = {}
    /\ loading = FALSE
    /\ tasks = EmptyBag
    /\ inbox = <<>>

CoreFrame == UNCHANGED <<game_saves, local_saves, loading, tasks, inbox, codec>>

CallLoadSaves(gameFault, localFault) ==
    /\ hist.calls < MaxCalls
    /\ \E r \in load_saves(fs, gameFault, localFault) :
          call' = [op |-> "load_saves", pre |-> fs, gameFault |-> gameFault,
                   localFault |-> localFault, result |-> r]
    /\ hist' = [hist EXCEPT !.calls = @ + 1]
    /\ UNCHANGED fs
    /\ CoreFrame

CallBackupSave(source_path, chapter, slot, now) ==
    /\ hist.calls < MaxCalls
    /\ LET r == backup_save(fs, source_path, chapter, slot, now)
       IN  /\ fs' = r.fs
           /\ call' = [op |-> "backup_save", pre |-> fs, ok |-> r.ok,
                       path |-> source_path, chapter |-> chapter,
                       slot |-> slot, now |-> now, earlier |-> hist.backups]
           /\ hist' = [hist EXCEPT
                 !.calls = @ + 1,
                 !.backups = IF r.ok
                             THEN @ \cup {[chapter |-> chapter, slot |-> slot,
                                           contents |-> ReadFile(fs, source_path).contents,
                                           now |-> now]}
                             ELSE @]
    /\ CoreFrame

CallRestoreSave(local_path, chapter, slot) ==
    /\ hist.calls < MaxCalls
    /\ LET r == restore_save(fs, local_path, chapter, slot)
       IN  /\ fs' = r.fs
           /\ call' = [op |-> "restore_save", pre |-> fs, ok |-> r.ok,
                       path |-> local_path, chapter |-> chapter, slot |-> slot]
    /\ hist' = [hist EXCEPT !.calls = @ + 1]
    /\ CoreFrame

CallDeleteLocalSave(path) ==
    /\ hist.calls < MaxCalls
    /\ LET r == delete_local_save(fs, path)
       IN  /\ fs' = r.fs
           /\ call' = [op |-> "delete_local_save", pre |-> fs, ok |-> r.ok,
                       path |-> path]
    /\ hist' = [hist EXCEPT !.calls = @ + 1]
    /\ CoreFrame

NextCore ==
    \/ \E gf \in ScanFaults, lf \in ScanFaults : CallLoadSaves(gf, lf)
    \/ \E p \in PathsOf(fs, "game"), c \in CallChapters, s \in CallSlots,
          now \in Instants : CallBackupSave(p, c, s, now)
    \/ \E p \in PathsOf(fs, "local"), c \in CallChapters, s \in CallSlots :
          CallRestoreSave(p, c, s)
    \/ \E p \in PathsOf(fs, "local") : CallDeleteLocalSave(p)

SpecCore == InitCore /\ [][NextCore]_vars

(* Claims about the core operations, each about the last call *)

BackupDone == call.op = "backup_save" /\ call.ok

\* The bytes of the file a call names, before the call
BytesBefore == call.pre[call.path.dir].files[call.path.name]

NewArchiveNames == DOMAIN fs.local.files \ DOMAIN call.pre.local.files

\* The clock reading of the call differs from that of every earlier backup
\* of the same chapter, slot and content
FreshClock ==
    \A b \in call.earlier :
        (b.chapter = call.chapter /\ b.slot = call.slot /\ b.contents = BytesBefore)
            => b.now # call.now

ArchiveKept ==
    \A n \in DOMAIN call.pre.local.files :
        n \in DOMAIN fs.local.files /\ fs.local.files[n] = call.pre.local.files[n]

\* C1 as stated: every successful backup_save adds exactly one new file to
\* the archive directory.
C1_AlwaysOneNewFile == BackupDone => Cardinality(NewArchiveNames) = 1

\* C1, amended: a successful backup_save leaves the game directory (the
\* source with it) and every earlier archive file unchanged; it adds at most
\* one file, whose bytes are the source's and whose name decodes to the
\* chapter, the slot and the hash of those bytes; it adds exactly one, under
\* a name no archive file had, whenever its clock reading differs from that
\* of every earlier backup of the same chapter, slot and content; backups
\* that differ in chapter, slot, content or clock reading have different
\* names, and a delete leaves every other archive file as it was.
C1_Backup ==
    /\ BackupDone =>
          /\ fs.game = call.pre.game
          /\ ArchiveKept
          /\ Cardinality(NewArchiveNames) <= 1
          /\ \E n \in DOMAIN fs.local.files :
                /\ fs.local.files[n] = BytesBefore
                /\ parse_local_save_filename(n) =
                      [some |-> TRUE, chapter |-> call.chapter, slot |-> call.slot,
                       hash |-> Sha256Hex(BytesBefore)]
                /\ NewArchiveNames \subseteq {n}
          /\ FreshClock => Cardinality(NewArchiveNames) = 1
    /\ \A b1, b2 \in hist.backups :
          b1 # b2 => BackupFileOf(b1) # BackupFileOf(b2)
    /\ (call.op = "delete_local_save" /\ call.ok) =>
          \A n \in DOMAIN call.pre.local.files \ {call.path.name} :
              n \in DOMAIN fs.local.files
                 /\ fs.local.files[n] = call.pre.local.files[n]

\* A second backup of the same file, chapter and slot at another reading,
\* both archive files present with the same hash
C1_Witness ==
    /\ BackupDone /\ FreshClock
    /\ Cardinality(NewArchiveNames) = 1
    /\ \E b \in call.earlier :
          /\ b.chapter = call.chapter /\ b.slot = call.slot
          /\ b.contents = BytesBefore /\ b.now # call.now
          /\ BackupFileOf(b) \in DOMAIN fs.local.files
          /\ parse_local_save_filename(BackupFileOf(b)).hash = Sha256Hex(BytesBefore)

RestoreDone == call.op = "restore_save" /\ call.ok

\* The names that decode to the call's chapter and slot and are as short as
\* the two numbers without padding allow
UnpaddedTargets ==
    {n \in DOMAIN fs.game.files :
        /\ parse_save_filename(n) =
              [some |-> TRUE, chapter |-> call.chapter, slot |-> call.slot]
        /\ Len(n) = 6 + Len(ToDec(call.chapter)) + 1 + Len(ToDec(call.slot))}

\* C2: a successful restore_save leaves in the game directory a file named
\* filech<chapter>_<slot> holding the archive file's bytes, whatever the slot
\* held before, and leaves the archive directory and every other file of the
\* game directory unchanged.
C2_Restore ==
    RestoreDone =>
        /\ fs.local = call.pre.local
        /\ \E n \in UnpaddedTargets :
              /\ fs.game.files[n] = BytesBefore
              /\ DOMAIN fs.game.files = DOMAIN call.pre.game.files \cup {n}
              /\ \A m \in DOMAIN call.pre.game.files \ {n} :
                    fs.game.files[m] = call.pre.game.files[m]

\* filech1_0 held other bytes before, beside other files
C2_Witness ==
    /\ RestoreDone /\ call.chapter = 1 /\ call.slot = 0
    /\ LET n == <<"f", "i", "l", "e", "c", "h", "1", "_", "0">>
       IN  /\ n \in DOMAIN call.pre.game.files
           /\ call.pre.game.files[n] = "BBBB"
           /\ fs.game.files[n] = "AAAA"
           /\ Cardinality(DOMAIN fs.game.files) = 3

ScanReadFailed ==
    \/ call.pre.game.exists /\ call.gameFault # "none"
    \/ call.pre.local.exists /\ call.localFault # "none"

\* C4: load_saves returns a single IoError and no records when the listing
\* of either directory, or an entry of it, fails; otherwise both
\* collections, made of the files whose names decode, the others skipped.
C4_ScanAllOrNothing ==
    call.op = "load_saves" =>
        IF ScanReadFailed
        THEN call.result = [ok |-> FALSE]
        ELSE /\ call.result.ok
             /\ DOMAIN call.result = {"ok", "game_saves", "local_saves"}
             /\ {call.result.game_saves[k].path.name : k \in DOMAIN call.result.game_saves}
                   \subseteq {n \in DOMAIN call.pre.game.files : parse_save_filename(n).some}
             /\ \A n \in DOMAIN call.pre.game.files :
                   parse_save_filename(n).some =>
                      <<parse_save_filename(n).chapter, parse_save_filename(n).slot>>
                         \in DOMAIN call.result.game_saves
             /\ {x.path.name : x \in call.result.local_saves}
                   = {n \in DOMAIN call.pre.local.files :
                         parse_local_save_filename(n).some}

\* The game directory was read, the archive directory failed on an entry
C4_Witness ==
    /\ call.op = "load_saves"
    /\ call.gameFault = "none" /\ call.localFault = "entry"
    /\ \E n \in DOMAIN call.pre.game.files : parse_save_filename(n).some
    /\ call.pre.local.exists
    /\ call.result = [ok |-> FALSE]

\* C7: deleting an archive file that exists succeeds and removes only that
\* file, and a scan run afterwards does not list it; deleting a path where
\* no file exists returns an error and changes nothing.
C7_Delete ==
    call.op = "delete_local_save" =>
        IF FileExists(call.pre, call.path)
        THEN /\ call.ok
             /\ fs.game = call.pre.game
             /\ DOMAIN fs.local.files = DOMAIN call.pre.local.files \ {call.path.name}
             /\ \A n \in DOMAIN fs.local.files :
                   fs.local.files[n] = call.pre.local.files[n]
             /\ \A r \in load_saves(fs, "none", "none") :
                   r.ok /\ \A x \in r.local_saves : x.path # call.path
        ELSE ~call.ok /\ fs = call.pre

\* A listed archive file deleted, another one left
C7_Witness ==
    /\ call.op = "delete_local_save" /\ call.ok
    /\ parse_local_save_filename(call.path.name).some
    /\ \E r \in load_saves(fs, "none", "none") : r.local_saves # {}

----------------------------------------------------------------------------
(* Spec: the application.  Deltasaver::new starts the first scan; the     *)
(* view turns clicks into messages; update handles the messages one at a  *)
(* time, oldest first, and hands futures to the executor; the futures run *)
(* concurrently, one file system call per step, and each ends by sending  *)
(* its message.                                                           *)

\* enum Message
SavesLoaded(result) == [type |-> "SavesLoaded", result |-> result]
RefreshSaves == [type |-> "RefreshSaves"]
BackupSave(chapter, slot) == [type |-> "BackupSave", chapter |-> chapter, slot |-> slot]
RestoreSave(path, chapter, slot) ==
    [type |-> "RestoreSave", path |-> path, chapter |-> chapter, slot |-> slot]
DeleteLocalSave(path) == [type |-> "DeleteLocalSave", path |-> path]

\* The futures of Task::perform, each at the call it makes next
LoadTask == [kind |-> "load_saves", pc |-> "game", game |-> NoGameSaves]
BackupTask(path, chapter, slot) ==
    [kind |-> "backup_save", pc |-> "read", path |-> path, chapter |-> chapter,
     slot |-> slot, contents |-> ""]
RestoreTask(path, chapter, slot) ==
    [kind |-> "restore_save", pc |-> "read", path |-> path, chapter |-> chapter,
     slot |-> slot, contents |-> ""]
DeleteTask(path) == [kind |-> "delete_local_save", pc |-> "remove", path |-> path]

Running == BagToSet(tasks)

Spawn(t) == tasks (+) SetToBag({t})

Finish(t) == tasks (-) SetToBag({t})

Advance(t, u) == (tasks (-) SetToBag({t})) (+) SetToBag({u})

OpDoneOnSuccessOnly(ok) == IF ok THEN <<RefreshSaves>> ELSE <<>>

\* `|_| Message::RefreshSaves`: what a finished file operation sends
OpDone(ok) == <<RefreshSaves>>

\* Directories the application starts from, with the earlier backups
AppFsAtStart ==
    {[fs |-> [game |-> Dir([n \in {LiveName(1, 0)} |-> "AAAA"]),
              local |-> Dir([n \in {BackupFileOf(ErasedSaveBackup)} |-> "BBBB"])],
      backups |-> {ErasedSaveBackup}],
     [fs |-> [game |-> Dir([n \in {LiveName(1, 0), ForeignGameName} |-> "BBBB"]),
              local |-> Dir([n \in {BackupFileOf(EarlierBackup)} |-> "AAAA"])],
      backups |-> {EarlierBackup}],
     [fs |-> [game |-> AbsentDir,
              local |-> Dir([n \in {BackupFileOf(EarlierBackup), ForeignLocalName} |->
                                "AAAA"])],
      backups |-> {EarlierBackup}]}

\* Deltasaver::new
Init ==
    /\ \E s \in AppFsAtStart :
          /\ fs = s.fs
          /\ hist = [NoHist EXCEPT !.backups = s.backups, !.scans = 1]
    /\ game_saves = NoGameSaves
    /\ local_saves = {}
    /\ loading = TRUE
    /\ tasks = SetToBag({LoadTask})
    /\ inbox = <<>>
    /\ call = NoCall
    /\ codec = NoCodec

Shown == [game_saves |-> game_saves, local_saves |-> local_saves]

(* Deltasaver::view: the buttons that have an on_press *)

BackupButtons ==
    IF loading THEN {}
    ELSE {k \in DOMAIN game_saves :
             k[1] \in 1..CHAPTER_COUNT /\ k[2] \in 0..BUILTIN_SLOT_MAX_INDEX}

LocalButtons ==
    IF loading THEN {}
    ELSE {x \in local_saves :
             x.chapter \in 1..CHAPTER_COUNT /\ x.slot \in 0..BUILTIN_SLOT_MAX_INDEX}

Press(message) ==
    /\ hist.clicks < MaxClicks
    /\ inbox' = Append(inbox, message)
    /\ hist' = [hist EXCEPT !.clicks = @ + 1]
    /\ UNCHANGED <<fs, game_saves, local_saves, loading, tasks, call, codec>>

PressBackup(k) == k \in BackupButtons /\ Press(BackupSave(k[1], k[2]))

PressRestore(x) == x \in LocalButtons /\ Press(RestoreSave(x.path, x.chapter, x.slot))

PressDelete(x) == x \in LocalButtons /\ Press(DeleteLocalSave(x.path))

(* Deltasaver::update *)

Receive(type) == inbox # <<>> /\ Head(inbox).type = type /\ inbox' = Tail(inbox)

ClearOnError(result, shown) ==
    IF result.ok
    THEN [game_saves |-> result.game_saves, local_saves |-> result.local_saves]
    ELSE [game_saves |-> NoGameSaves, local_saves |-> {}]

\* The collections after Message::SavesLoaded(result): replaced on Ok,
\* nothing done on Err
AfterSavesLoaded(result, shown) ==
    IF result.ok
    THEN [game_saves |-> result.game_saves, local_saves |-> result.local_saves]
    ELSE shown

UpdateSavesLoaded ==
    /\ Receive("SavesLoaded")
    /\ loading' = FALSE
    /\ LET after == AfterSavesLoaded(Head(inbox).result, Shown)
       IN  /\ game_saves' = after.game_saves
           /\ local_saves' = after.local_saves
    /\ hist' = [hist EXCEPT
          !.last_load = IF Head(inbox).result.ok THEN "ok" ELSE "err"]
    /\ UNCHANGED <<fs, tasks, call, codec>>

UpdateRefreshSaves ==
    /\ Receive("RefreshSaves")
    /\ loading' = TRUE
    /\ tasks' = Spawn(LoadTask)
    /\ hist' = [hist EXCEPT !.refreshes = @ + 1, !.scans = @ + 1]
    /\ UNCHANGED <<fs, game_saves, local_saves, call, codec>>

UpdateBackupSave ==
    /\ Receive("BackupSave")
    /\ LET m == Head(inbox)
           k == <<m.chapter, m.slot>>
       IN  IF k \in DOMAIN game_saves
           THEN /\ tasks' = Spawn(BackupTask(game_saves[k].path, m.chapter, m.slot))
                /\ hist' = [hist EXCEPT !.ops = @ + 1]
           ELSE /\ tasks' = tasks
                /\ hist' = [hist EXCEPT !.ignored = @ + 1]
    /\ UNCHANGED <<fs, game_saves, local_saves, loading, call, codec>>

UpdateRestoreSave ==
    /\ Receive("RestoreSave")
    /\ LET m == Head(inbox)
       IN  tasks' = Spawn(RestoreTask(m.path, m.chapter, m.slot))
    /\ hist' = [hist EXCEPT !.ops = @ + 1]
    /\ UNCHANGED <<fs, game_saves, local_saves, loading, call, codec>>

UpdateDeleteLocalSave ==
    /\ Receive("DeleteLocalSave")
    /\ tasks' = Spawn(DeleteTask(Head(inbox).path))
    /\ hist' = [hist EXCEPT !.ops = @ + 1]
    /\ UNCHANGED <<fs, game_saves, local_saves, loading, call, codec>>

Update ==
    \/ UpdateSavesLoaded
    \/ UpdateRefreshSaves
    \/ UpdateBackupSave
    \/ UpdateRestoreSave
    \/ UpdateDeleteLocalSave

(* The futures, step by step *)

AppFrame == UNCHANGED <<game_saves, local_saves, loading, call, codec>>

Failed(ok) == [hist EXCEPT !.fault = @ \/ ~ok]

OpFailed(ok) == [hist EXCEPT !.fault = @ \/ ~ok, !.op_failed = @ \/ ~ok]

\* load_saves, the game directory
StepScanGame(t, fault) ==
    /\ t.kind = "load_saves" /\ t.pc = "game"
    /\ \E g \in ScanGameDir(fs, fault) :
          IF g.ok
          THEN /\ tasks' = Advance(t, [t EXCEPT !.pc = "local", !.game = g.game_saves])
               /\ UNCHANGED <<inbox, hist>>
          ELSE /\ tasks' = Finish(t)
               /\ inbox' = Append(inbox, SavesLoaded(IoError))
               /\ hist' = Failed(FALSE)
    /\ UNCHANGED fs
    /\ AppFrame

\* load_saves, the archive directory, and its return
StepScanLocal(t, fault) ==
    /\ t.kind = "load_saves" /\ t.pc = "local"
    /\ LET r == LoadResult([ok |-> TRUE, game_saves |-> t.game],
                          ScanLocalDir(fs, fault))
       IN  /\ inbox' = Append(inbox, SavesLoaded(r))
           /\ hist' = Failed(r.ok)
    /\ tasks' = Finish(t)
    /\ UNCHANGED fs
    /\ AppFrame

\* fs::read of backup_save and of restore_save
StepRead(t) ==
    /\ t.kind \in {"backup_save", "restore_save"} /\ t.pc = "read"
    /\ LET r == ReadFile(fs, t.path)
       IN  IF r.ok
           THEN /\ tasks' = Advance(t, [t EXCEPT !.pc = "write", !.contents = r.contents])
                /\ UNCHANGED <<inbox, hist>>
           ELSE /\ tasks' = Finish(t)
                /\ inbox' = inbox \o OpDone(FALSE)
                /\ hist' = OpFailed(FALSE)
    /\ UNCHANGED fs
    /\ AppFrame

\* backup_save from the hash to its return
StepBackupWrite(t, now) ==
    /\ t.kind = "backup_save" /\ t.pc = "write"
    /\ LET w == WriteFile(fs, Path("local", BackupName(t.chapter, t.slot, t.contents, now)),
                          t.contents)
       IN  /\ fs' = w.fs
           /\ inbox' = inbox \o OpDone(w.ok)
           /\ hist' = [OpFailed(w.ok) EXCEPT
                 !.backups = IF w.ok
                             THEN @ \cup {[chapter |-> t.chapter, slot |-> t.slot,
                                           contents |-> t.contents, now |-> now]}
                             ELSE @]
    /\ tasks' = Finish(t)
    /\ AppFrame

\* restore_save from the destination path to its return
StepRestoreWrite(t) ==
    /\ t.kind = "restore_save" /\ t.pc = "write"
    /\ LET w == WriteFile(fs, Path("game", LiveName(t.chapter, t.slot)), t.contents)
       IN  /\ fs' = w.fs
           /\ inbox' = inbox \o OpDone(w.ok)
           /\ hist' = OpFailed(w.ok)
    /\ tasks' = Finish(t)
    /\ AppFrame

\* delete_local_save
StepDelete(t) ==
    /\ t.kind = "delete_local_save"
    /\ LET r == RemoveFile(fs, t.path)
       IN  /\ fs' = r.fs
           /\ inbox' = inbox \o OpDone(r.ok)
           /\ hist' = OpFailed(r.ok)
    /\ tasks' = Finish(t)
    /\ AppFrame

TaskStep ==
    \E t \in Running :
        \/ \E fault \in ScanFaults : StepScanGame(t, fault)
        \/ \E fault \in ScanFaults : StepScanLocal(t, fault)
        \/ StepRead(t)
        \/ \E now \in Instants : StepBackupWrite(t, now)
        \/ StepRestoreWrite(t)
        \/ StepDelete(t)

(* The game, which owns its save directory: the player erases a save *)
GameErasesSave ==
    /\ hist.external < MaxExternal
    /\ \E n \in DOMAIN fs.game.files :
          /\ DecodeSaveName(n).some
          /\ fs' = RemoveFile(fs, Path("game", n)).fs
    /\ hist' = [hist EXCEPT !.external = @ + 1]
    /\ UNCHANGED <<game_saves, local_saves, loading, tasks, inbox, call, codec>>

Next ==
    \/ \E k \in BackupButtons : PressBackup(k)
    \/ \E x \in LocalButtons : PressRestore(x)
    \/ \E x \in LocalButtons : PressDelete(x)
    \/ UpdateSavesLoaded
    \/ UpdateRefreshSaves
    \/ UpdateBackupSave
    \/ UpdateRestoreSave
    \/ UpdateDeleteLocalSave
    \/ \E t \in Running, fault \in ScanFaults : StepScanGame(t, fault)
    \/ \E t \in Running, fault \in ScanFaults : StepScanLocal(t, fault)
    \/ \E t \in Running : StepRead(t)
    \/ \E t \in Running, now \in Instants : StepBackupWrite(t, now)
    \/ \E t \in Running : StepRestoreWrite(t)
    \/ \E t \in Running : StepDelete(t)
    \/ GameErasesSave

Spec == Init /\ [][Next]_vars

\* The event loop handles every message it has, the executor runs every
\* future it was given
FairSpec == Spec /\ WF_vars(Update) /\ WF_vars(TaskStep)

----------------------------------------------------------------------------
(* Claims about the application *)

FileOps == {"backup_save", "restore_save", "delete_local_save"}

OpTasks == {t \in Running : t.kind \in FileOps}

ScanTasks == {t \in Running : t.kind = "load_saves"}

\* The file operations in flight, two alike counted twice
OpsInFlight == BagCardinality([t \in OpTasks |-> CopiesIn(t, tasks)])

Pending(types) == {i \in 1..Len(inbox) : inbox[i].type \in types}

OpMessages == {"BackupSave", "RestoreSave", "DeleteLocalSave"}

\* An operation has been triggered and its follow-up scan has not been
\* received yet
OperationUnderWay ==
    \/ Pending(OpMessages \cup {"RefreshSaves", "SavesLoaded"}) # {}
    \/ Running # {}

InputEnabled == BackupButtons # {} \/ LocalButtons # {}

\* C3: from the moment an operation is triggered until its follow-up scan
\* has been received, user input is disabled, and never are two file
\* operations, or a file operation and a scan, in flight together.
C3_OneOperationAtATime ==
    /\ (hist.clicks > 0 /\ OperationUnderWay) => ~InputEnabled
    /\ BagCardinality(tasks) <= 1 \/ OpTasks = {}

\* C8 as stated: after a failed scan both collections are empty.
C8_EmptyAfterFailedScan ==
    hist.last_load = "err" => (game_saves = NoGameSaves /\ local_saves = {})

FailedLoadReceived ==
    /\ inbox # <<>> /\ Head(inbox).type = "SavesLoaded" /\ ~Head(inbox).result.ok
    /\ inbox' = Tail(inbox)

\* C8, amended: when update receives SavesLoaded with an error it sets
\* loading to false and leaves both collections as they were (empty only
\* if no scan has succeeded before).
C8_KeptAfterFailedScan ==
    [][FailedLoadReceived =>
          /\ game_saves' = game_saves
          /\ local_saves' = local_saves
          /\ loading' = FALSE]_vars

\* A failed scan has been received and the collections of an earlier,
\* successful one are still shown
C8_Witness ==
    /\ hist.last_load = "err"
    /\ game_saves # NoGameSaves /\ local_saves # {}
    /\ ~loading

RefreshReceived ==
    inbox # <<>> /\ Head(inbox).type = "RefreshSaves" /\ inbox' = Tail(inbox)

BackupIgnored ==
    /\ inbox # <<>> /\ Head(inbox).type = "BackupSave"
    /\ <<Head(inbox).chapter, Head(inbox).slot>> \notin DOMAIN game_saves
    /\ inbox' = Tail(inbox)

\* Every click is a message waiting, an operation started or a BackupSave
\* ignored; every operation started is in flight, or has sent its one
\* RefreshSaves, which is waiting or handled; every RefreshSaves handled
\* has started one scan
C9_Counts ==
    /\ hist.clicks = Cardinality(Pending(OpMessages)) + hist.ops + hist.ignored
    /\ hist.ops = OpsInFlight + Cardinality(Pending({"RefreshSaves"}))
                     + hist.refreshes
    /\ hist.scans = 1 + hist.refreshes

\* C9: every RestoreSave, DeleteLocalSave and BackupSave of a save in the
\* mapping is followed, once its file operation has finished, succeeded or
\* not, by exactly one RefreshSaves, which sets loading and starts a scan,
\* and loading becomes false again; a BackupSave of a save not in the
\* mapping starts nothing and changes nothing.
C9_RefreshAfterOperation ==
    /\ []C9_Counts
    /\ [][RefreshReceived => (loading' /\ tasks' = Spawn(LoadTask))]_vars
    /\ [][BackupIgnored =>
            UNCHANGED <<fs, game_saves, local_saves, loading, tasks>>]_vars
    /\ (hist.refreshes < hist.ops) ~> (hist.refreshes = hist.ops)
    /\ loading ~> ~loading

\* An operation that failed has had its RefreshSaves and its scan, a
\* BackupSave has been ignored, and loading is false again
C9_Witness ==
    /\ hist.op_failed /\ hist.ignored > 0
    /\ hist.ops > 0 /\ hist.refreshes = hist.ops
    /\ Running = {} /\ inbox = <<>> /\ ~loading

Quiescent == Running = {} /\ inbox = <<>>

\* C10: with no change from outside and no I/O failure, whenever nothing is
\* in flight after an operation was issued, the two collections are the
\* decoding of the two directories as they are.
C10_ShownIsCurrent ==
    (hist.clicks > 0 /\ hist.external = 0 /\ ~hist.fault /\ Quiescent) =>
        \E r \in load_saves(fs, "none", "none") :
            game_saves = r.game_saves /\ local_saves = r.local_saves

====
